---- MODULE Spec2Model ----
(***************************************************************************)
(* Linear transformations and matrix products over packed CKKS slot        *)
(* vectors, after python/examples/example_7_matrix_multiplication.py.      *)
(*                                                                         *)
(* numpy 1-D arrays and Python lists are sequences (index i of the source  *)
(* is index i+1 here); a 2-D array is a sequence of rows.  The engine is   *)
(* modelled as exact slot-wise integer arithmetic on a vector of nmax      *)
(* slots; a scale is kept symbolically as s^e / prod_i q_i^(c_i), where s  *)
(* is the scale used at encryption and q_i the prime dropped when a        *)
(* rescale leaves chain index i.                                           *)
(***************************************************************************)
EXTENDS Integers, Sequences, FiniteSets, TLC

\* ---------------------------------------------------------------- bounds
MaxVal == 1        \* vectors and second factors are scaled by 1..MaxVal
MaxNz == 2         \* input matrices have at most MaxNz nonzero entries
MaxN == 2          \* dimension of the matrix handed to lin_trans directly
MaxD == 2          \* block size d of the matrix product
MaxSlots == 9      \* slot capacities 1..MaxSlots
MaxLevel == 3      \* chain index of a fresh ciphertext is in 0..MaxLevel

\* the block sizes the closed forms are stated for
TestedDims == {2, 4, 8}

VARIABLES call, pc, ret, err, mm, lt, log, dec
vars == <<call, pc, ret, err, mm, lt, log, dec>>

\* ------------------------------------------------------- numpy helpers
Min(a, b) == IF a < b THEN a ELSE b
Max(a, b) == IF a > b THEN a ELSE b
Abs(x) == IF x < 0 THEN -x ELSE x

RECURSIVE SeqSum(_)
SeqSum(s) == IF s = <<>> THEN 0 ELSE Head(s) + SeqSum(Tail(s))

\* the sequence v[1], ..., v[n] as a tuple
RECURSIVE Prefix(_, _)
Prefix(v, n) == IF n = 0 THEN <<>> ELSE Append(Prefix(v, n - 1), v[n])

Rows(U) == Len(U)
Cols(U) == Len(U[1])

\* np.zeros(r*c).reshape(r, c)
Zeros(r, c) == [i \in 1..r |-> [j \in 1..c |-> 0]]

\* U[r, c] = v with 0-based r, c
SetEntry(U, r, c, v) == [U EXCEPT ![r + 1][c + 1] = v]

\* U.sum() and np.abs(v).sum()
MatSum(U) == SeqSum([i \in 1..Len(U) |-> SeqSum(U[i])])
AbsSum(v) == SeqSum([i \in 1..Len(v) |-> Abs(v[i])])

\* np.diag(U, k): the k-th diagonal of a 2-D array, empty when out of range
np_diag(U, k) ==
    IF k >= 0
    THEN [t \in 1..Max(Min(Rows(U), Cols(U) - k), 0) |-> U[t][t + k]]
    ELSE [t \in 1..Max(Min(Rows(U) + k, Cols(U)), 0) |-> U[t - k][t]]

\* matrix.flatten(): row-major
RECURSIVE Flatten(_)
Flatten(M) == IF M = <<>> THEN <<>> ELSE Head(M) \o Flatten(Tail(M))

\* np.array(v).reshape(r, c); numpy refuses a size mismatch
Reshape(v, r, c) ==
    IF Len(v) # r * c THEN [err |-> "reshape", val |-> <<>>]
    ELSE [err |-> "none",
          val |-> [i \in 1..r |-> [j \in 1..c |-> v[(i - 1) * c + j]]]]

\* list * t
RECURSIVE Tile(_, _)
Tile(v, t) == IF t <= 0 THEN <<>> ELSE v \o Tile(v, t - 1)

\* v[0:n]
Slice(v, n) == SubSeq(v, 1, Min(n, Len(v)))

\* U.dot(m) for a column vector m, and A.dot(B)
MatVec(U, m) ==
    Prefix([i \in 1..Rows(U) |-> SeqSum([j \in 1..Cols(U) |-> U[i][j] * m[j]])], Rows(U))
MatMul(A, B) ==
    [i \in 1..Rows(A) |->
        [j \in 1..Cols(B) |-> SeqSum([k \in 1..Cols(A) |-> A[i][k] * B[k][j]])]]

\* ------------------------------------------------------------ diag_repr
diag_repr_wrap(U, i) ==
    IF Rows(U) # Cols(U) THEN [err |-> "shape", val |-> <<>>]
    ELSE LET result == np_diag(U, i) \o np_diag(U, -i)
         IN  IF Len(result) # Rows(U) THEN [err |-> "index", val |-> <<>>]
             ELSE [err |-> "none", val |-> result]

diag_repr_lower(U, i) ==
    IF Rows(U) # Cols(U) THEN [err |-> "shape", val |-> <<>>]
    ELSE LET N == Rows(U)
             result == np_diag(U, -i) \o np_diag(U, N - i)
         IN  IF Len(result) # N THEN [err |-> "index", val |-> <<>>]
             ELSE [err |-> "none", val |-> result]

diag_repr_anyshape(U, i) ==
    LET N == Rows(U)
        result == np_diag(U, i) \o np_diag(U, -N + i)
    IN  IF Len(result) # N THEN [err |-> "index", val |-> <<>>]
        ELSE [err |-> "none", val |-> result]

diag_repr(U, i) ==
    IF Rows(U) # Cols(U) THEN [err |-> "shape", val |-> <<>>]
    ELSE LET N == Rows(U)
             result == np_diag(U, i) \o np_diag(U, -N + i)
         IN  IF Len(result) # N THEN [err |-> "index", val |-> <<>>]
             ELSE [err |-> "none", val |-> result]

\* ------------------------------------------------ permutation builders
\* for i, j in itertools.product(range(d), range(d)): the p-th pair (p from 1)
ProductI(p, d) == (p - 1) \div d
ProductJ(p, d) == (p - 1) % d

\* U after the assignments U[w[p][1], w[p][2]] = 1.0 of a sequence of writes:
\* an entry some write names is 1, every other entry is as before
ApplyWrites(U, w) ==
    LET written == {w[p] : p \in 1..Len(w)}
    IN  [r \in 1..Rows(U) |-> [c \in 1..Cols(U) |->
            IF <<r - 1, c - 1>> \in written THEN 1 ELSE U[r][c]]]

\* np.kron(np.eye(2), P)
KronEye2(P) ==
    LET n == Rows(P)
    IN  [r \in 1..(2 * n) |-> [c \in 1..(2 * n) |->
            IF (r - 1) \div n = (c - 1) \div n
            THEN P[((r - 1) % n) + 1][((c - 1) % n) + 1] ELSE 0]]

\* output[0:nmax, 0:nmax]
Slice2(U, nmax) == [r \in 1..Min(nmax, Rows(U)) |-> Slice(U[r], nmax)]

sigma_permutation_shift(d, nmax) ==
    LET n == d * d
        w == [p \in 1..n |->
                <<d * ProductI(p, d) + ProductJ(p, d),
                  d * ProductI(p, d) + ((ProductJ(p, d) + 1) % d)>>]
    IN  Slice2(KronEye2(ApplyWrites(Zeros(n, n), w)), nmax)

sigma_permutation_whole(d, nmax) ==
    LET n == d * d
        w == [p \in 1..n |->
                <<d * ProductI(p, d) + ProductJ(p, d),
                  d * ProductI(p, d) + ((ProductI(p, d) + ProductJ(p, d)) % d)>>]
    IN  KronEye2(ApplyWrites(Zeros(n, n), w))

sigma_permutation(d, nmax) ==
    LET n == d * d
        w == [p \in 1..n |->
                <<d * ProductI(p, d) + ProductJ(p, d),
                  d * ProductI(p, d) + ((ProductI(p, d) + ProductJ(p, d)) % d)>>]
    IN  Slice2(KronEye2(ApplyWrites(Zeros(n, n), w)), nmax)

tau_permutation(d, nmax) ==
    LET n == d * d
        w == [p \in 1..n |->
                <<d * ProductI(p, d) + ProductJ(p, d),
                  d * ((ProductI(p, d) + ProductJ(p, d)) % d) + ProductJ(p, d)>>]
    IN  Slice2(KronEye2(ApplyWrites(Zeros(n, n), w)), nmax)

phi_permutation_k_rows(k, d, nmax) ==
    LET n == d * d
        w == [p \in 1..n |->
                <<d * ProductI(p, d) + ProductJ(p, d),
                  d * ((ProductI(p, d) + k) % d) + ProductJ(p, d)>>]
    IN  ApplyWrites(Zeros(n, n), w)

phi_permutation_k(k, d, nmax) ==
    LET n == d * d
        w == [p \in 1..n |->
                <<d * ProductI(p, d) + ProductJ(p, d),
                  d * ProductI(p, d) + ((ProductJ(p, d) + k) % d)>>]
    IN  ApplyWrites(Zeros(n, n), w)

psi_permutation_k_empty(k, d, nmax) ==
    LET n == d * d
    IN  Zeros(n, n)

psi_permutation_k(k, d, nmax) ==
    LET n == d * d
        w == [p \in 1..n |->
                <<d * ProductI(p, d) + ProductJ(p, d),
                  d * ((ProductI(p, d) + k) % d) + ProductJ(p, d)>>]
    IN  ApplyWrites(Zeros(n, n), w)

\* ------------------------------------------------ the engine, slot-wise
\* a scale s^e / prod_i q_i^(c_i)
BaseScale == [e |-> 1, c |-> [i \in 1..MaxLevel |-> 0]]
ScaleMul(a, b) == [e |-> a.e + b.e, c |-> [i \in 1..MaxLevel |-> a.c[i] + b.c[i]]]
ScaleDrop(a, lvl) == [a EXCEPT !.c[lvl] = @ + 1]

\* encoder.encode(values, scale, plain): at most nmax values, zero padded,
\* at the top of the chain
CanEncode(values, nmax) == Len(values) <= nmax
encode(values, scale, nmax, top) ==
    [slots |-> Prefix([i \in 1..nmax |-> IF i <= Len(values) THEN values[i] ELSE 0], nmax),
     scale |-> scale, level |-> top]

\* encryptor.encrypt(plain, cipher)
encrypt(plain) ==
    [slots |-> plain.slots, scale |-> plain.scale, level |-> plain.level, size |-> 2]

\* decryptor.decrypt(cipher, plain); encoder.decode(plain, vec)
decrypt(cipher) == [slots |-> cipher.slots, scale |-> cipher.scale, level |-> cipher.level]
decode(plain) == plain.slots

\* evaluator.mod_switch_to_inplace(x, parms_id): down the chain only
CanModSwitchTo(x, level) == level <= x.level
mod_switch_to(x, level) == [x EXCEPT !.level = level]

\* evaluator.rotate_vector(ct, steps, gal_keys, dest): cyclic over all slots,
\* slot i of the result is slot (i + steps) mod nmax of ct
CanRotate(ct, steps) == ct.size = 2 /\ steps < Len(ct.slots)
rotate_vector(ct, steps) ==
    [ct EXCEPT !.slots = Prefix([i \in 1..Len(ct.slots) |->
                                    ct.slots[((i - 1 + steps) % Len(ct.slots)) + 1]],
                                Len(ct.slots))]

\* evaluator.multiply_plain_inplace(ct, plain)
CanMultiplyPlain(ct, plain) == ct.level = plain.level
multiply_plain(ct, plain) ==
    [ct EXCEPT !.slots = Prefix([i \in 1..Len(ct.slots) |-> ct.slots[i] * plain.slots[i]],
                                Len(ct.slots)),
               !.scale = ScaleMul(ct.scale, plain.scale)]

\* evaluator.add_inplace(a, b): equal level and equal scale
CanAdd(a, b) == a.level = b.level /\ a.scale = b.scale
add(a, b) ==
    [a EXCEPT !.slots = Prefix([i \in 1..Len(a.slots) |-> a.slots[i] + b.slots[i]],
                               Len(a.slots)),
              !.size = Max(a.size, b.size)]

\* evaluator.add_many(operands, out): a nonempty list, summed left to right
CanAddMany(operands) ==
    /\ operands # <<>>
    /\ \A i \in 1..Len(operands) : CanAdd(operands[1], operands[i])
RECURSIVE AddFrom(_, _)
AddFrom(a, rest) == IF rest = <<>> THEN a ELSE AddFrom(add(a, Head(rest)), Tail(rest))
add_many(operands) == AddFrom(Head(operands), Tail(operands))

\* evaluator.multiply(a, b, c)
CanMultiply(a, b) == a.level = b.level
multiply(a, b) ==
    [slots |-> Prefix([i \in 1..Len(a.slots) |-> a.slots[i] * b.slots[i]], Len(a.slots)),
     scale |-> ScaleMul(a.scale, b.scale), level |-> a.level,
     size |-> a.size + b.size - 1]

\* evaluator.relinearize_inplace(ct, relin_keys)
relinearize(ct) == [ct EXCEPT !.size = 2]

\* evaluator.rescale_to_next_inplace(ct): one step down the chain, the scale
\* divided by the prime that is dropped
CanRescale(ct) == ct.level > 0
rescale_to_next(ct) ==
    [ct EXCEPT !.level = ct.level - 1, !.scale = ScaleDrop(ct.scale, ct.level)]

\* ct.set_scale(scale)
set_scale(ct, scale) == [ct EXCEPT !.scale = scale]

\* ------------------------------------------------------ packing adapters
encrypt_array(matrix, nmax, scale, top) ==
    LET M == Rows(matrix)
        N == Cols(matrix)
    IN  encrypt(encode(Tile(Flatten(matrix), nmax \div (N * M)), scale, nmax, top))

decrypt_array_cols(cipher, M, N) ==
    LET vec == decode(decrypt(cipher))
        r == Reshape(Slice(vec, M * N), N, M)
    IN  IF r.err # "none" THEN r
        ELSE [err |-> "none", val |-> [i \in 1..M |-> [j \in 1..N |-> r.val[j][i]]]]

decrypt_array(cipher, M, N) ==
    LET vec == decode(decrypt(cipher))
    IN  Reshape(Slice(vec, M * N), M, N)

\* ------------------------------------- the identities, without encryption
\* rho(m; l): entry i is m[(i + l) mod n]
RotL(v, l) == Prefix([i \in 1..Len(v) |-> v[((i - 1 + l) % Len(v)) + 1]], Len(v))
VecMul(a, b) == Prefix([i \in 1..Len(a) |-> a[i] * b[i]], Len(a))
VecAdd(a, b) == Prefix([i \in 1..Len(a) |-> a[i] + b[i]], Len(a))

\* sum over 0 <= l < n of u_l . rho(m; l)
RECURSIVE PlainLinTransFrom(_, _, _)
PlainLinTransFrom(U, m, l) ==
    LET term == VecMul(diag_repr(U, l).val, RotL(m, l))
    IN  IF l = Rows(U) - 1 THEN term
        ELSE VecAdd(term, PlainLinTransFrom(U, m, l + 1))
PlainLinTrans(U, m) == PlainLinTransFrom(U, m, 0)

\* A0 . B0 + sum over 1 <= k < d of Vk A0 . Wk B0, on flattened matrices
RECURSIVE PlainDotFrom(_, _, _, _)
PlainDotFrom(a0, b0, d, k) ==
    IF k >= d THEN [i \in 1..(d * d) |-> 0]
    ELSE VecAdd(VecMul(MatVec(phi_permutation_k(k, d, d * d), a0),
                       MatVec(psi_permutation_k(k, d, d * d), b0)),
                PlainDotFrom(a0, b0, d, k + 1))
PlainDot(A, B, d) ==
    LET a0 == MatVec(sigma_permutation(d, d * d), Flatten(A))
        b0 == MatVec(tau_permutation(d, d * d), Flatten(B))
    IN  VecAdd(VecMul(a0, b0), PlainDotFrom(a0, b0, d, 1))

\* ------------------------------------------------------------- inputs
\* matrix entries are 0, 1 or -1 (0 or 1 for the factors of a product);
\* vectors and the second factor of a product are scaled by 1..MaxVal
Signs == {-1, 1}
Ones == {1}
PosVals == 1..MaxVal

\* r x c matrices with at most k nonzero entries, the entries taken from V
RECURSIVE SparseMats(_, _, _, _)
SparseMats(r, c, k, V) ==
    IF k = 0 THEN {Zeros(r, c)}
    ELSE LET P == SparseMats(r, c, k - 1, V)
         IN  P \cup {SetEntry(M, i, j, v) : M \in P, i \in 0..(r - 1),
                                           j \in 0..(c - 1), v \in V}

\* length-n vectors with at most one nonzero entry
UnitVectors(n) ==
    {[i \in 1..n |-> 0]} \cup
    {[i \in 1..n |-> IF i = p THEN v ELSE 0] : p \in 1..n, v \in PosVals}

\* the length-n vector 1, 2, ..., n and its multiples: like the example's
\* np.arange (line 217) all entries differ, and none is zero
Ramp(n) == [i \in 1..n |-> i]
Ramps(n) == {[i \in 1..n |-> v * Ramp(n)[i]] : v \in PosVals}

\* pairs of d x d matrices with at most MaxNz nonzero entries between them,
\* the entries of the first 1 and those of the second one value of PosVals
FactorPairs(d) ==
    UNION {{<<A, [i \in 1..d |-> [j \in 1..d |-> v * B[i][j]]]>> :
                A \in SparseMats(d, d, a, Ones),
                B \in SparseMats(d, d, MaxNz - a, Ones), v \in PosVals} :
            a \in 0..MaxNz}

\* np.eye(d) and np.arange(d*d).reshape(d, d), the factors of the example
\* (lines 257-258)
Eye(d) == [i \in 1..d |-> [j \in 1..d |-> IF i = j THEN 1 ELSE 0]]
Arange(d) == [i \in 1..d |-> [j \in 1..d |-> (i - 1) * d + (j - 1)]]
AllOnes(n) == [i \in 1..n |-> [j \in 1..n |-> 1]]

SlotCounts == 1..MaxSlots
BlockDims == (1..MaxD) \cup TestedDims

\* ------------------------------------ the pure functions, called directly
Idle == [fn |-> "none"]

InitPure ==
    /\ \/ \E N \in 1..MaxN : \E U \in SparseMats(N, N, MaxNz, Signs) :
          \E l \in (-1)..(MaxN + 1) :
             call = [fn |-> "diag_repr", U |-> U, l |-> l]
       \/ \E N \in 1..MaxN : \E U \in SparseMats(N, N, MaxNz, Signs) :
          \E m \in UnitVectors(N) \cup Ramps(N) :
             call = [fn |-> "plain_lin_trans", U |-> U, m |-> m]
       \/ \E d \in BlockDims : \E f \in {"sigma", "tau", "phi", "psi"} :
          \E k \in 0..(d - 1) :
          \E nmax \in SlotCounts \cup {d * d, 2 * d * d, 2 * d * d + 1} :
             call = [fn |-> f, d |-> d, k |-> k, nmax |-> nmax]
       \/ \E d \in 1..MaxD : \E AB \in FactorPairs(d) :
             call = [fn |-> "plain_dot", d |-> d, A |-> AB[1], B |-> AB[2]]
       \/ \E r \in 1..MaxN, c \in 1..MaxN : \E M \in SparseMats(r, c, MaxNz, Signs) :
          \E nmax \in {x \in SlotCounts : r * c <= x} :
             call = [fn |-> "round_trip", matrix |-> M, nmax |-> nmax,
                     top |-> MaxLevel]
    /\ pc = "call"
    /\ ret = <<>>
    /\ err = "none"
    /\ mm = Idle
    /\ lt = Idle
    /\ log = <<>>
    /\ dec = <<>>

\* the value or the failure of a call that reports one
Return(r) ==
    /\ pc' = IF r.err = "none" THEN "done" ELSE "failed"
    /\ ret' = r.val
    /\ err' = r.err
    /\ UNCHANGED <<call, mm, lt, log, dec>>

CallDiagRepr ==
    /\ pc = "call" /\ call.fn = "diag_repr"
    /\ Return(diag_repr(call.U, call.l))

CallPlainLinTrans ==
    /\ pc = "call" /\ call.fn = "plain_lin_trans"
    /\ Return([err |-> "none", val |-> PlainLinTrans(call.U, call.m)])

CallSigma ==
    /\ pc = "call" /\ call.fn = "sigma"
    /\ Return([err |-> "none", val |-> sigma_permutation(call.d, call.nmax)])

CallTau ==
    /\ pc = "call" /\ call.fn = "tau"
    /\ Return([err |-> "none", val |-> tau_permutation(call.d, call.nmax)])

CallPhi ==
    /\ pc = "call" /\ call.fn = "phi"
    /\ Return([err |-> "none", val |-> phi_permutation_k(call.k, call.d, call.nmax)])

CallPsi ==
    /\ pc = "call" /\ call.fn = "psi"
    /\ Return([err |-> "none", val |-> psi_permutation_k(call.k, call.d, call.nmax)])

CallPlainDot ==
    /\ pc = "call" /\ call.fn = "plain_dot"
    /\ Return([err |-> "none", val |-> PlainDot(call.A, call.B, call.d)])

\* encrypt_array(M) ...
CallEncryptArray ==
    /\ pc = "call" /\ call.fn = "round_trip"
    /\ pc' = "packed"
    /\ ret' = encrypt_array(call.matrix, call.nmax, BaseScale, call.top)
    /\ UNCHANGED <<call, err, mm, lt, log, dec>>

\* ... then decrypt_array on its result, nothing in between
CallDecryptArray ==
    /\ pc = "packed" /\ call.fn = "round_trip"
    /\ LET r == decrypt_array(ret, Rows(call.matrix), Cols(call.matrix))
       IN  /\ pc' = IF r.err = "none" THEN "done" ELSE "failed"
           /\ ret' = r.val
           /\ err' = r.err
    /\ UNCHANGED <<call, mm, lt, log, dec>>

NextPure ==
    \/ CallDiagRepr
    \/ CallPlainLinTrans
    \/ CallSigma
    \/ CallTau
    \/ CallPhi
    \/ CallPsi
    \/ CallPlainDot
    \/ CallEncryptArray
    \/ CallDecryptArray

SpecPure == InitPure /\ [][NextPure]_vars

\* ------------------------------------------------------------ cA_x_cB
\* an engine call as the log records it: its name and, for rotate_vector,
\* the number of steps (0 for the calls that take no such argument)
Op(name) == <<name, 0>>
Rot(steps) == <<"rotate", steps>>

cA_x_cB_norescale(A, B) ==
    IF ~CanMultiply(A, B)
    THEN [err |-> "multiply_mismatch", val |-> <<>>, ops |-> <<>>]
    ELSE [err |-> "none", val |-> relinearize(multiply(A, B)),
          ops |-> <<Op("multiply"), Op("relinearize")>>]

cA_x_cB_norelin(A, B) ==
    IF ~CanMultiply(A, B)
    THEN [err |-> "multiply_mismatch", val |-> <<>>, ops |-> <<>>]
    ELSE LET C == multiply(A, B)
         IN  IF ~CanRescale(C)
             THEN [err |-> "level", val |-> <<>>, ops |-> <<Op("multiply")>>]
             ELSE [err |-> "none", val |-> rescale_to_next(C),
                   ops |-> <<Op("multiply"), Op("rescale")>>]

\* the product, or the failure of the engine, with the operations executed
cA_x_cB(A, B) ==
    IF ~CanMultiply(A, B)
    THEN [err |-> "multiply_mismatch", val |-> <<>>, ops |-> <<>>]
    ELSE LET C == relinearize(multiply(A, B))
         IN  IF ~CanRescale(C)
             THEN [err |-> "level", val |-> <<>>,
                   ops |-> <<Op("multiply"), Op("relinearize")>>]
             ELSE [err |-> "none", val |-> rescale_to_next(C),
                   ops |-> <<Op("multiply"), Op("relinearize"), Op("rescale")>>]

\* ------------------------------------------------------------ lin_trans
\* the frame of a call of lin_trans; dest says where the caller puts the result
LinTransFrame(U, ct, relin, dest) ==
    [fn |-> "lin_trans", U |-> U, ct |-> ct, relin |-> relin, dest |-> dest,
     scale |-> <<>>, parms_id |-> -1, l |-> 0, acc |-> <<>>, out |-> <<>>]

\* one pass of the loop body for an offset l whose diagonal ul is not zero
LinTransTerm(ul_vec, ct, l, scale, parms_id, nmax, top) ==
    IF ~CanEncode(ul_vec, nmax)
    THEN [err |-> "encode", val |-> <<>>, ops |-> <<>>]
    ELSE LET ul0 == encode(ul_vec, scale, nmax, top)
         IN  IF ~CanModSwitchTo(ul0, parms_id)
             THEN [err |-> "level", val |-> <<>>, ops |-> <<Op("encode")>>]
             ELSE IF ~CanRotate(ct, l)
             THEN [err |-> "rotate", val |-> <<>>,
                   ops |-> <<Op("encode"), Op("mod_switch")>>]
             ELSE LET ul == mod_switch_to(ul0, parms_id)
                      ct_l == rotate_vector(ct, l)
                  IN  IF ~CanMultiplyPlain(ct_l, ul)
                      THEN [err |-> "plain_mismatch", val |-> <<>>,
                            ops |-> <<Op("encode"), Op("mod_switch"), Rot(l)>>]
                      ELSE [err |-> "none", val |-> multiply_plain(ct_l, ul),
                            ops |-> <<Op("encode"), Op("mod_switch"), Rot(l),
                                      Op("multiply_plain")>>]

\* lines 62-77 with lines 64-65 taken out: the terms of the offsets l..N-1,
\* none skipped
RECURSIVE LinTransFullTerms(_, _, _, _, _)
LinTransFullTerms(U, ct, l, nmax, top) ==
    IF l >= Rows(U) THEN <<>>
    ELSE <<LinTransTerm(diag_repr(U, l).val, ct, l, ct.scale, ct.level, nmax, top)>>
            \o LinTransFullTerms(U, ct, l + 1, nmax, top)

\* lines 62-77: the terms appended to acc for the offsets l..N-1
RECURSIVE LinTransTerms(_, _, _, _, _)
LinTransTerms(U, ct, l, nmax, top) ==
    IF l >= Rows(U) THEN <<>>
    ELSE LET ul_vec_np == diag_repr(U, l).val
         IN  (IF AbsSum(ul_vec_np) = 0 THEN <<>>
              ELSE <<LinTransTerm(ul_vec_np, ct, l, ct.scale, ct.level, nmax, top)>>)
                 \o LinTransTerms(U, ct, l + 1, nmax, top)

\* lines 78-83 on the terms of the loop: the first failure of a term, or the
\* sum, relinearized and rescaled when keys are given
LinTransSum(terms, relin) ==
    LET bad == {i \in 1..Len(terms) : terms[i].err # "none"}
        acc == [i \in 1..Len(terms) |-> terms[i].val]
    IN  IF bad # {}
        THEN [err |-> terms[CHOOSE i \in bad : \A j \in bad : i <= j].err, val |-> <<>>]
        ELSE IF acc = <<>> THEN [err |-> "empty", val |-> <<>>]
        ELSE IF ~CanAddMany(acc) THEN [err |-> "add_mismatch", val |-> <<>>]
        ELSE IF ~relin THEN [err |-> "none", val |-> add_many(acc)]
        ELSE IF ~CanRescale(relinearize(add_many(acc)))
        THEN [err |-> "level", val |-> <<>>]
        ELSE [err |-> "none", val |-> rescale_to_next(relinearize(add_many(acc)))]

\* lin_trans of a square U as one function of its arguments
lin_trans(U, ct, relin, nmax, top) ==
    LinTransSum(LinTransTerms(U, ct, 0, nmax, top), relin)

\* lin_trans of a square U with no diagonal skipped: lines 59-83 without the
\* test of line 64
LinTransFull(U, ct, relin, nmax, top) ==
    LinTransSum(LinTransFullTerms(U, ct, 0, nmax, top), relin)

Fail_partial(e, ops) ==
    /\ pc' = "failed"
    /\ err' = e
    /\ log' = log \o ops
    /\ ret' = IF lt.fn = "lin_trans" /\ lt.acc # <<>> THEN lt.acc[1] ELSE ret
    /\ UNCHANGED <<call, mm, lt, dec>>

Fail(e, ops) ==
    /\ pc' = "failed"
    /\ err' = e
    /\ log' = log \o ops
    /\ UNCHANGED <<call, ret, mm, lt, dec>>

LinTransEnter_above ==
    /\ pc = "lt_enter"
    /\ IF Rows(lt.U) # Cols(lt.U)
       THEN Fail("shape", <<>>)
       ELSE /\ lt' = [lt EXCEPT !.scale = lt.ct.scale, !.parms_id = lt.ct.level + 1,
                                !.acc = <<>>, !.l = 0]
            /\ pc' = "lt_loop"
            /\ UNCHANGED <<call, ret, err, mm, log, dec>>

\* lines 56-61
LinTransEnter ==
    /\ pc = "lt_enter"
    /\ IF Rows(lt.U) # Cols(lt.U)
       THEN Fail("shape", <<>>)
       ELSE /\ lt' = [lt EXCEPT !.scale = lt.ct.scale, !.parms_id = lt.ct.level,
                                !.acc = <<>>, !.l = 0]
            /\ pc' = "lt_loop"
            /\ UNCHANGED <<call, ret, err, mm, log, dec>>

LinTransIter_inplace ==
    /\ pc = "lt_loop"
    /\ lt.l < Rows(lt.U)
    /\ LET ul_vec_np == diag_repr(lt.U, lt.l)
       IN  IF ul_vec_np.err # "none" THEN Fail(ul_vec_np.err, <<>>)
           ELSE IF AbsSum(ul_vec_np.val) = 0
           THEN /\ lt' = [lt EXCEPT !.l = @ + 1]
                /\ UNCHANGED <<call, pc, ret, err, mm, log, dec>>
           ELSE LET t == LinTransTerm(ul_vec_np.val, lt.ct, lt.l, lt.scale,
                                      lt.parms_id, call.nmax, call.top)
                IN  IF t.err # "none" THEN Fail(t.err, t.ops)
                    ELSE /\ lt' = [lt EXCEPT !.l = @ + 1, !.acc = Append(@, t.val),
                                             !.ct = rotate_vector(lt.ct, lt.l)]
                         /\ log' = log \o t.ops
                         /\ UNCHANGED <<call, pc, ret, err, mm, dec>>

\* lines 62-77, one offset l
LinTransIter ==
    /\ pc = "lt_loop"
    /\ lt.l < Rows(lt.U)
    /\ LET ul_vec_np == diag_repr(lt.U, lt.l)
       IN  IF ul_vec_np.err # "none" THEN Fail(ul_vec_np.err, <<>>)
           ELSE IF AbsSum(ul_vec_np.val) = 0
           THEN /\ lt' = [lt EXCEPT !.l = @ + 1]
                /\ UNCHANGED <<call, pc, ret, err, mm, log, dec>>
           ELSE LET t == LinTransTerm(ul_vec_np.val, lt.ct, lt.l, lt.scale,
                                      lt.parms_id, call.nmax, call.top)
                IN  IF t.err # "none" THEN Fail(t.err, t.ops)
                    ELSE /\ lt' = [lt EXCEPT !.l = @ + 1, !.acc = Append(@, t.val)]
                         /\ log' = log \o t.ops
                         /\ UNCHANGED <<call, pc, ret, err, mm, dec>>

\* lines 78-79
LinTransAddMany ==
    /\ pc = "lt_loop"
    /\ lt.l >= Rows(lt.U)
    /\ IF lt.acc = <<>> THEN Fail("empty", <<>>)
       ELSE IF ~CanAddMany(lt.acc) THEN Fail("add_mismatch", <<>>)
       ELSE /\ lt' = [lt EXCEPT !.out = add_many(lt.acc)]
            /\ log' = Append(log, Op("add_many"))
            /\ pc' = "lt_post"
            /\ UNCHANGED <<call, ret, err, mm, dec>>

\* the caller's assignment of the returned ciphertext
LinTransDeliver(out) ==
    CASE lt.dest = "top" ->
            /\ ret' = out /\ pc' = "returned" /\ UNCHANGED mm
      [] lt.dest = "A0" ->
            /\ mm' = [mm EXCEPT !.ct_A0 = out] /\ pc' = "dot_B0" /\ UNCHANGED ret
      [] lt.dest = "B0" ->
            /\ mm' = [mm EXCEPT !.ct_B0 = out] /\ pc' = "dot_k" /\ UNCHANGED ret
      [] lt.dest = "Ak" ->
            /\ mm' = [mm EXCEPT !.ct_Ak = Append(@, out)] /\ pc' = "dot_Bk"
            /\ UNCHANGED ret
      [] lt.dest = "Bk" ->
            /\ mm' = [mm EXCEPT !.ct_Bk = Append(@, out), !.k = @ + 1]
            /\ pc' = "dot_k" /\ UNCHANGED ret

LinTransReturn_always ==
    /\ pc = "lt_post"
    /\ LET out == relinearize(lt.out)
       IN  IF ~CanRescale(out) THEN Fail("level", <<Op("relinearize")>>)
           ELSE /\ lt' = [lt EXCEPT !.out = rescale_to_next(out)]
                /\ log' = log \o <<Op("relinearize"), Op("rescale")>>
                /\ LinTransDeliver(rescale_to_next(out))
                /\ UNCHANGED <<call, err, dec>>

\* lines 80-83
LinTransReturn ==
    /\ pc = "lt_post"
    /\ IF lt.relin
       THEN LET out == relinearize(lt.out)
            IN  IF ~CanRescale(out) THEN Fail("level", <<Op("relinearize")>>)
                ELSE /\ lt' = [lt EXCEPT !.out = rescale_to_next(out)]
                     /\ log' = log \o <<Op("relinearize"), Op("rescale")>>
                     /\ LinTransDeliver(rescale_to_next(out))
                     /\ UNCHANGED <<call, err, dec>>
       ELSE /\ LinTransDeliver(lt.out)
            /\ UNCHANGED <<call, err, lt, log, dec>>

\* ------------------------------------------------------------ cA_dot_cB
DotFrame_k0(ct_A, ct_B, d) ==
    [fn |-> "cA_dot_cB", d |-> d, ct_A |-> ct_A, ct_B |-> ct_B,
     Usigma |-> <<>>, Utau |-> <<>>, Wk |-> <<>>, ct_A0 |-> <<>>, ct_B0 |-> <<>>,
     ct_Ak |-> <<>>, ct_Bk |-> <<>>, k |-> 0, ct_AB |-> <<>>, idx |-> 0]

DotFrame(ct_A, ct_B, d) ==
    [fn |-> "cA_dot_cB", d |-> d, ct_A |-> ct_A, ct_B |-> ct_B,
     Usigma |-> <<>>, Utau |-> <<>>, Wk |-> <<>>, ct_A0 |-> <<>>, ct_B0 |-> <<>>,
     ct_Ak |-> <<>>, ct_Bk |-> <<>>, k |-> 1, ct_AB |-> <<>>, idx |-> 0]

DotCheck_half ==
    /\ pc = "dot_check"
    /\ IF 2 * (mm.d * mm.d) >= call.nmax
       THEN Fail("capacity", <<>>)
       ELSE /\ pc' = "dot_perms"
            /\ UNCHANGED <<call, ret, err, mm, lt, log, dec>>

\* lines 132-135: n > nmax/2
DotCheck ==
    /\ pc = "dot_check"
    /\ IF 2 * (mm.d * mm.d) > call.nmax
       THEN Fail("capacity", <<>>)
       ELSE /\ pc' = "dot_perms"
            /\ UNCHANGED <<call, ret, err, mm, lt, log, dec>>

\* lines 136-137
DotPerms ==
    /\ pc = "dot_perms"
    /\ mm' = [mm EXCEPT !.Usigma = sigma_permutation(mm.d, call.nmax),
                        !.Utau = tau_permutation(mm.d, call.nmax)]
    /\ pc' = "dot_A0"
    /\ UNCHANGED <<call, ret, err, lt, log, dec>>

DotCallA0_raw ==
    /\ pc = "dot_A0"
    /\ lt' = LinTransFrame(mm.Usigma, mm.ct_A, FALSE, "A0")
    /\ pc' = "lt_enter"
    /\ UNCHANGED <<call, ret, err, mm, log, dec>>

\* line 138
DotCallA0 ==
    /\ pc = "dot_A0"
    /\ lt' = LinTransFrame(mm.Usigma, mm.ct_A, TRUE, "A0")
    /\ pc' = "lt_enter"
    /\ UNCHANGED <<call, ret, err, mm, log, dec>>

\* line 139
DotCallB0 ==
    /\ pc = "dot_B0"
    /\ lt' = LinTransFrame(mm.Utau, mm.ct_B, TRUE, "B0")
    /\ pc' = "lt_enter"
    /\ UNCHANGED <<call, ret, err, mm, log, dec>>

\* lines 142-148, one k
DotLoopK ==
    /\ pc = "dot_k"
    /\ mm.k < mm.d
    /\ LET Vk == phi_permutation_k(mm.k, mm.d, call.nmax)
           Wk == psi_permutation_k(mm.k, mm.d, call.nmax)
       IN  IF MatSum(Vk) = 0 \/ MatSum(Wk) = 0
           THEN /\ mm' = [mm EXCEPT !.k = @ + 1]
                /\ UNCHANGED <<call, pc, ret, err, lt, log, dec>>
           ELSE /\ mm' = [mm EXCEPT !.Wk = Wk]
                /\ lt' = LinTransFrame(Vk, mm.ct_A0, TRUE, "Ak")
                /\ pc' = "lt_enter"
                /\ UNCHANGED <<call, ret, err, log, dec>>

\* line 149
DotCallBk ==
    /\ pc = "dot_Bk"
    /\ lt' = LinTransFrame(mm.Wk, mm.ct_B0, TRUE, "Bk")
    /\ pc' = "lt_enter"
    /\ UNCHANGED <<call, ret, err, mm, log, dec>>

\* line 151, after the loop over k
DotProduct0 ==
    /\ pc = "dot_k"
    /\ mm.k >= mm.d
    /\ LET p == cA_x_cB(mm.ct_A0, mm.ct_B0)
       IN  IF p.err # "none" THEN Fail(p.err, p.ops)
           ELSE /\ mm' = [mm EXCEPT !.ct_AB = p.val, !.idx = 0]
                /\ log' = log \o p.ops
                /\ pc' = "dot_acc"
                /\ UNCHANGED <<call, ret, err, lt, dec>>

DotAccumulate_noscale ==
    /\ pc = "dot_acc"
    /\ mm.idx < Len(mm.ct_Ak)
    /\ LET p == cA_x_cB(mm.ct_Ak[mm.idx + 1], mm.ct_Bk[mm.idx + 1])
       IN  IF p.err # "none" THEN Fail(p.err, p.ops)
           ELSE LET parms_id == p.val.level
                IN  IF ~CanModSwitchTo(mm.ct_AB, parms_id) THEN Fail("level", p.ops)
                    ELSE LET ct_AB == mod_switch_to(mm.ct_AB, parms_id)
                             ct_ABk == p.val
                         IN  IF ~CanAdd(ct_AB, ct_ABk)
                             THEN Fail("add_mismatch",
                                       p.ops \o <<Op("mod_switch"), Op("set_scale")>>)
                             ELSE /\ mm' = [mm EXCEPT !.ct_AB = add(ct_AB, ct_ABk),
                                                      !.idx = @ + 1]
                                  /\ log' = log \o p.ops
                                              \o <<Op("mod_switch"), Op("set_scale"),
                                                    Op("add")>>
                                  /\ pc' = "dot_acc"
                                  /\ UNCHANGED <<call, ret, err, lt, dec>>

DotAccumulate_accscale ==
    /\ pc = "dot_acc"
    /\ mm.idx < Len(mm.ct_Ak)
    /\ LET p == cA_x_cB(mm.ct_Ak[mm.idx + 1], mm.ct_Bk[mm.idx + 1])
       IN  IF p.err # "none" THEN Fail(p.err, p.ops)
           ELSE LET parms_id == p.val.level
                IN  IF ~CanModSwitchTo(mm.ct_AB, parms_id) THEN Fail("level", p.ops)
                    ELSE LET ct_AB == set_scale(mod_switch_to(mm.ct_AB, parms_id), p.val.scale)
                             ct_ABk == p.val
                         IN  IF ~CanAdd(ct_AB, ct_ABk)
                             THEN Fail("add_mismatch",
                                       p.ops \o <<Op("mod_switch"), Op("set_scale")>>)
                             ELSE /\ mm' = [mm EXCEPT !.ct_AB = add(ct_AB, ct_ABk),
                                                      !.idx = @ + 1]
                                  /\ log' = log \o p.ops
                                              \o <<Op("mod_switch"), Op("set_scale"),
                                                    Op("add")>>
                                  /\ pc' = "dot_acc"
                                  /\ UNCHANGED <<call, ret, err, lt, dec>>

\* lines 152-157, one k
DotAccumulate ==
    /\ pc = "dot_acc"
    /\ mm.idx < Len(mm.ct_Ak)
    /\ LET p == cA_x_cB(mm.ct_Ak[mm.idx + 1], mm.ct_Bk[mm.idx + 1])
       IN  IF p.err # "none" THEN Fail(p.err, p.ops)
           ELSE LET parms_id == p.val.level
                IN  IF ~CanModSwitchTo(mm.ct_AB, parms_id) THEN Fail("level", p.ops)
                    ELSE LET ct_AB == mod_switch_to(mm.ct_AB, parms_id)
                             ct_ABk == set_scale(p.val, ct_AB.scale)
                         IN  IF ~CanAdd(ct_AB, ct_ABk)
                             THEN Fail("add_mismatch",
                                       p.ops \o <<Op("mod_switch"), Op("set_scale")>>)
                             ELSE /\ mm' = [mm EXCEPT !.ct_AB = add(ct_AB, ct_ABk),
                                                      !.idx = @ + 1]
                                  /\ log' = log \o p.ops
                                              \o <<Op("mod_switch"), Op("set_scale"),
                                                    Op("add")>>
                                  /\ pc' = "dot_acc"
                                  /\ UNCHANGED <<call, ret, err, lt, dec>>

\* line 158
DotReturn ==
    /\ pc = "dot_acc"
    /\ mm.idx >= Len(mm.ct_Ak)
    /\ ret' = mm.ct_AB
    /\ pc' = "returned"
    /\ UNCHANGED <<call, err, mm, lt, log, dec>>

\* ----------------------------------------------------- the two programs
\* a length-N vector as the N x 1 array the example encrypts
Column(m) == [i \in 1..Len(m) |-> <<m[i]>>]

\* the scales a ciphertext handed to cA_dot_cB was encrypted at
Scales == {BaseScale, ScaleMul(BaseScale, BaseScale)}

\* the inputs fit the slots, as encrypt_array needs (lines 166-167); U is
\* r x c and the vector has n entries (U is square or n = c); the second
\* factor of a product may have been switched one step down the chain, or
\* encrypted at another scale, before the call; the product of the example
\* (A the identity, B a ramp, lines 257-258) is run with one more block size,
\* in twice d*d slots
Init ==
    /\ \/ \E r \in 1..MaxN, c \in 1..MaxN :
          \E n \in {x \in 1..MaxN : r = c \/ x = c} :
          \E U \in SparseMats(r, c, MaxNz, Signs) :
          \E nmax \in {x \in SlotCounts : r <= x /\ c <= x /\ n <= x} :
          \E relin \in BOOLEAN, top \in {0, MaxLevel} :
             call = [fn |-> "lin_trans", U |-> U, m |-> Ramp(n), nmax |-> nmax,
                     relin |-> relin, top |-> top]
       \/ \E d \in 1..MaxD : \E AB \in FactorPairs(d) :
          \E nmax \in {x \in SlotCounts : d * d <= x} : \E top \in 0..MaxLevel :
          \E levelB \in {x \in 0..top : top - x <= 1} : \E scaleB \in Scales :
             call = [fn |-> "cA_dot_cB", d |-> d, A |-> AB[1], B |-> AB[2],
                     nmax |-> nmax, top |-> top, levelB |-> levelB,
                     scaleB |-> scaleB]
       \/ \E top \in 0..MaxLevel :
             call = [fn |-> "cA_dot_cB", d |-> MaxD + 1, A |-> Eye(MaxD + 1),
                     B |-> Arange(MaxD + 1), nmax |-> 2 * (MaxD + 1) * (MaxD + 1),
                     top |-> top, levelB |-> top, scaleB |-> BaseScale]
    /\ pc = "start"
    /\ ret = <<>>
    /\ err = "none"
    /\ mm = Idle
    /\ lt = Idle
    /\ log = <<>>
    /\ dec = <<>>

\* lines 217-221: cm = encrypt_array(m, ...); lin_trans(U, cm, ...)
StartLinTrans ==
    /\ pc = "start" /\ call.fn = "lin_trans"
    /\ lt' = LinTransFrame(call.U,
                           encrypt_array(Column(call.m), call.nmax, BaseScale, call.top),
                           call.relin, "top")
    /\ pc' = "lt_enter"
    /\ UNCHANGED <<call, ret, err, mm, log, dec>>

\* lines 261-263: A_enc, B_enc = encrypt_array(...); cA_dot_cB(A_enc, B_enc, ..., N)
StartDot ==
    /\ pc = "start" /\ call.fn = "cA_dot_cB"
    /\ mm' = DotFrame(encrypt_array(call.A, call.nmax, BaseScale, call.top),
                      mod_switch_to(encrypt_array(call.B, call.nmax, call.scaleB,
                                                  call.top), call.levelB),
                      call.d)
    /\ pc' = "dot_check"
    /\ UNCHANGED <<call, ret, err, lt, log, dec>>

\* lines 222 and 264: decrypt_array of the returned ciphertext
Decrypt ==
    /\ pc = "returned"
    /\ LET r == IF call.fn = "lin_trans"
                THEN decrypt_array(ret, Rows(call.U), 1)
                ELSE decrypt_array(ret, call.d, call.d)
       IN  /\ pc' = IF r.err = "none" THEN "done" ELSE "failed"
           /\ err' = r.err
           /\ dec' = r.val
    /\ UNCHANGED <<call, ret, mm, lt, log>>

Next ==
    \/ StartLinTrans
    \/ StartDot
    \/ LinTransEnter
    \/ LinTransIter
    \/ LinTransAddMany
    \/ LinTransReturn
    \/ DotCheck
    \/ DotPerms
    \/ DotCallA0
    \/ DotCallB0
    \/ DotLoopK
    \/ DotCallBk
    \/ DotProduct0
    \/ DotAccumulate
    \/ DotReturn
    \/ Decrypt

Spec == Init /\ [][Next]_vars

\* ------------------------------------------- the terms made by workers
\* lines 154-157 for one term: the accumulator switched to the term's
\* parms_id, the term's scale set to the accumulator's, then add_inplace
Accumulate_noscale(ct_AB, ct_ABk) ==
    IF ~CanModSwitchTo(ct_AB, ct_ABk.level) THEN [err |-> "level", val |-> <<>>]
    ELSE LET acc == mod_switch_to(ct_AB, ct_ABk.level)
         IN  IF ~CanAdd(acc, ct_ABk) THEN [err |-> "add_mismatch", val |-> <<>>]
             ELSE [err |-> "none", val |-> add(acc, ct_ABk)]

Accumulate(ct_AB, ct_ABk) ==
    IF ~CanModSwitchTo(ct_AB, ct_ABk.level) THEN [err |-> "level", val |-> <<>>]
    ELSE LET acc == mod_switch_to(ct_AB, ct_ABk.level)
             term == set_scale(ct_ABk, acc.scale)
         IN  IF ~CanAdd(acc, term) THEN [err |-> "add_mismatch", val |-> <<>>]
             ELSE [err |-> "none", val |-> add(acc, term)]

\* lines 152-157: the terms accumulated in the order of the list
RECURSIVE AccumulateFrom(_, _)
AccumulateFrom(ct_AB, terms) ==
    IF terms = <<>> THEN [err |-> "none", val |-> ct_AB]
    ELSE LET r == Accumulate(ct_AB, Head(terms))
         IN  IF r.err # "none" THEN r ELSE AccumulateFrom(r.val, Tail(terms))

\* the block sizes and dimensions of the runs with workers: one more than
\* the sequential runs, so that two per-k terms exist
ParDims == 1..(MaxD + 1)

\* a term is to do, skipped (lines 64 and 145), or done with its ciphertext
Todo == [st |-> "todo", val |-> <<>>]
Skipped == [st |-> "skip", val |-> <<>>]
Done(ct) == [st |-> "done", val |-> ct]

\* the state shared by the workers: the inputs of the terms (read only), one
\* entry per term, the accumulator and the order in which terms entered it
ParFrame(ct, A0, B0, n) ==
    [fn |-> "par", ct |-> ct, ct_A0 |-> A0, ct_B0 |-> B0,
     terms |-> [i \in 1..n |-> Todo], acc |-> <<>>, order |-> <<>>,
     failed_in |-> "none"]

InitPar ==
    /\ \/ \E N \in 1..MaxN : \E U \in SparseMats(N, N, MaxNz, Signs) :
          \E relin \in BOOLEAN, top \in {0, MaxLevel} :
             call = [fn |-> "lin_trans", U |-> U, m |-> Ramp(N), nmax |-> N,
                     relin |-> relin, top |-> top]
       \/ \E relin \in BOOLEAN, top \in {0, MaxLevel} :
             call = [fn |-> "lin_trans", U |-> AllOnes(MaxN + 1), m |-> Ramp(MaxN + 1),
                     nmax |-> MaxN + 1, relin |-> relin, top |-> top]
       \/ \E d \in ParDims : \E top \in 0..MaxLevel :
             call = [fn |-> "cA_dot_cB", d |-> d, A |-> Eye(d), B |-> Arange(d),
                     nmax |-> 2 * d * d, top |-> top]
    /\ pc = "start"
    /\ ret = <<>>
    /\ err = "none"
    /\ mm = Idle
    /\ lt = Idle
    /\ log = <<>>
    /\ dec = <<>>

\* lines 59-61: one worker per offset l
ParStartLinTrans ==
    /\ pc = "start" /\ call.fn = "lin_trans"
    /\ mm' = ParFrame(encrypt_array(Column(call.m), call.nmax, BaseScale, call.top),
                      <<>>, <<>>, Rows(call.U))
    /\ pc' = "par_run"
    /\ UNCHANGED <<call, ret, err, lt, log, dec>>

\* lines 132-139: A0 and B0, then one worker per k in [0,d)
ParStartDot ==
    /\ pc = "start" /\ call.fn = "cA_dot_cB"
    /\ LET ct_A == encrypt_array(call.A, call.nmax, BaseScale, call.top)
           ct_B == encrypt_array(call.B, call.nmax, BaseScale, call.top)
           A0 == lin_trans(sigma_permutation(call.d, call.nmax), ct_A, TRUE,
                           call.nmax, call.top)
           B0 == lin_trans(tau_permutation(call.d, call.nmax), ct_B, TRUE,
                           call.nmax, call.top)
       IN  IF 2 * (call.d * call.d) > call.nmax THEN Fail("capacity", <<>>)
           ELSE IF A0.err # "none" THEN Fail(A0.err, <<>>)
           ELSE IF B0.err # "none" THEN Fail(B0.err, <<>>)
           ELSE /\ mm' = ParFrame(<<>>, A0.val, B0.val, call.d)
                /\ pc' = "par_run"
                /\ UNCHANGED <<call, ret, err, lt, log, dec>>

\* lines 63-76 for the offset l = i - 1
ParTermLinTrans(i) ==
    /\ pc = "par_run" /\ call.fn = "lin_trans"
    /\ i <= Len(mm.terms)
    /\ mm.terms[i].st = "todo"
    /\ LET ul_vec_np == diag_repr(call.U, i - 1).val
           t == LinTransTerm(ul_vec_np, mm.ct, i - 1, mm.ct.scale, mm.ct.level,
                             call.nmax, call.top)
       IN  IF AbsSum(ul_vec_np) = 0
           THEN /\ mm' = [mm EXCEPT !.terms[i] = Skipped]
                /\ UNCHANGED <<call, pc, ret, err, lt, log, dec>>
           ELSE IF t.err # "none" THEN Fail(t.err, t.ops)
           ELSE /\ mm' = [mm EXCEPT !.terms[i] = Done(t.val)]
                /\ log' = log \o t.ops
                /\ UNCHANGED <<call, pc, ret, err, lt, dec>>

\* line 151 for k = 0, lines 143-149 and 153 for k = i - 1 >= 1
ParTermDot(i) ==
    /\ pc = "par_run" /\ call.fn = "cA_dot_cB"
    /\ i <= Len(mm.terms)
    /\ mm.terms[i].st = "todo"
    /\ IF i = 1
       THEN LET p == cA_x_cB(mm.ct_A0, mm.ct_B0)
            IN  IF p.err # "none" THEN Fail(p.err, p.ops)
                ELSE /\ mm' = [mm EXCEPT !.terms[i] = Done(p.val)]
                     /\ log' = log \o p.ops
                     /\ UNCHANGED <<call, pc, ret, err, lt, dec>>
       ELSE LET Vk == phi_permutation_k(i - 1, call.d, call.nmax)
                Wk == psi_permutation_k(i - 1, call.d, call.nmax)
                Ak == lin_trans(Vk, mm.ct_A0, TRUE, call.nmax, call.top)
                Bk == lin_trans(Wk, mm.ct_B0, TRUE, call.nmax, call.top)
            IN  IF MatSum(Vk) = 0 \/ MatSum(Wk) = 0
                THEN /\ mm' = [mm EXCEPT !.terms[i] = Skipped]
                     /\ UNCHANGED <<call, pc, ret, err, lt, log, dec>>
                ELSE IF Ak.err # "none" THEN Fail(Ak.err, <<>>)
                ELSE IF Bk.err # "none" THEN Fail(Bk.err, <<>>)
                ELSE LET p == cA_x_cB(Ak.val, Bk.val)
                     IN  IF p.err # "none" THEN Fail(p.err, p.ops)
                         ELSE /\ mm' = [mm EXCEPT !.terms[i] = Done(p.val)]
                              /\ log' = log \o p.ops
                              /\ UNCHANGED <<call, pc, ret, err, lt, dec>>

\* one addition of the reduction: a term that is done enters the accumulator,
\* as the first one, by add (line 79) or by the step of lines 154-157
ParReduce(i) ==
    /\ pc = "par_run"
    /\ i <= Len(mm.terms)
    /\ mm.terms[i].st = "done"
    /\ \A p \in 1..Len(mm.order) : mm.order[p] # i
    /\ LET r == IF mm.acc = <<>> THEN [err |-> "none", val |-> mm.terms[i].val]
                ELSE IF call.fn = "cA_dot_cB" THEN Accumulate(mm.acc, mm.terms[i].val)
                ELSE IF ~CanAdd(mm.acc, mm.terms[i].val)
                THEN [err |-> "add_mismatch", val |-> <<>>]
                ELSE [err |-> "none", val |-> add(mm.acc, mm.terms[i].val)]
       IN  IF r.err # "none"
           THEN /\ mm' = [mm EXCEPT !.failed_in = "reduce", !.order = Append(@, i)]
                /\ pc' = "failed"
                /\ err' = r.err
                /\ UNCHANGED <<call, ret, lt, log, dec>>
           ELSE /\ mm' = [mm EXCEPT !.acc = r.val, !.order = Append(@, i)]
                /\ UNCHANGED <<call, pc, ret, err, lt, log, dec>>

\* every term is skipped or in the accumulator: lines 78-83, or line 158
ParFinish ==
    /\ pc = "par_run"
    /\ \A i \in 1..Len(mm.terms) :
          \/ mm.terms[i].st = "skip"
          \/ mm.terms[i].st = "done" /\ \E p \in 1..Len(mm.order) : mm.order[p] = i
    /\ IF mm.acc = <<>> THEN Fail("empty", <<>>)
       ELSE IF call.fn = "lin_trans" /\ call.relin
       THEN LET out == relinearize(mm.acc)
            IN  IF ~CanRescale(out) THEN Fail("level", <<Op("relinearize")>>)
                ELSE /\ ret' = rescale_to_next(out)
                     /\ pc' = "done"
                     /\ log' = log \o <<Op("relinearize"), Op("rescale")>>
                     /\ UNCHANGED <<call, err, mm, lt, dec>>
       ELSE /\ ret' = mm.acc
            /\ pc' = "done"
            /\ UNCHANGED <<call, err, mm, lt, log, dec>>

NextPar ==
    \/ ParStartLinTrans
    \/ ParStartDot
    \/ \E i \in 1..(MaxN + 1) : ParTermLinTrans(i)
    \/ \E i \in ParDims : ParTermDot(i)
    \/ \E i \in 1..(MaxN + MaxD + 1) : ParReduce(i)
    \/ ParFinish

SpecPar == InitPar /\ [][NextPar]_vars

\* =========================================================== properties
Builders == {"sigma", "tau", "phi", "psi"}
Returned == pc \in {"done", "failed"}

\* C3: without encryption, the sum over l in [0,N) of diag_repr(U,l) times m
\* rotated left by l (entry i is m[(i+l) mod N]) is U*m exactly.
C3_DiagonalSum ==
    (call.fn = "plain_lin_trans" /\ Returned) =>
        (pc = "done" /\ ret = MatVec(call.U, call.m))

\* a matrix with an entry below the main diagonal (a wrapped diagonal) acted
\* on a vector and gave a nonzero product
W_C3 ==
    /\ call.fn = "plain_lin_trans" /\ pc = "done"
    /\ Rows(call.U) = 2 /\ call.U[2][1] # 0 /\ ret[2] # 0

\* C4: without encryption, flatten(A*B) is the sum over k in [0,d) of
\* phi^k(sigma(A)) element-wise psi^k(tau(B)), the k = 0 term being
\* sigma(A) element-wise tau(B), with the d*d x d*d permutation matrices.
C4_FourPermutations ==
    (call.fn = "plain_dot" /\ Returned) =>
        (pc = "done" /\ ret = Flatten(MatMul(call.A, call.B)))

\* two 2 x 2 matrices whose product has a nonzero entry made by a k = 1 term
W_C4 ==
    /\ call.fn = "plain_dot" /\ pc = "done" /\ call.d = 2
    /\ call.A[1][2] # 0 /\ call.B[2][1] # 0 /\ ret[1] # 0

\* C5: for square U (N x N) and l in [0,N), diag_repr(U,l) has length N, its
\* entry i is U[i,(i+l) mod N], and the length check does not fail.
C5_DiagRepr ==
    (call.fn = "diag_repr" /\ Returned /\ call.l \in 0..(Rows(call.U) - 1)) =>
        /\ pc = "done" /\ err = "none"
        /\ Len(ret) = Rows(call.U)
        /\ \A i \in 0..(Rows(call.U) - 1) :
              ret[i + 1] = call.U[i + 1][((i + call.l) % Rows(call.U)) + 1]

\* the diagonal with offset 1 of a 2 x 2 matrix whose wrapped part is nonzero
W_C5 ==
    /\ call.fn = "diag_repr" /\ pc = "done"
    /\ Rows(call.U) = 2 /\ call.l = 1 /\ ret[2] # 0

\* the column the closed form gives for row r = d*i + j of each builder
ClosedForm(f, k, d, r) ==
    LET i == r \div d
        j == r % d
    IN  CASE f = "sigma" -> d * i + ((i + j) % d)
          [] f = "tau" -> d * ((i + j) % d) + j
          [] f = "phi" -> d * i + ((j + k) % d)
          [] f = "psi" -> d * ((i + k) % d) + j

\* C6: for d in {2,4,8} and k in [0,d), within the d*d x d*d block every
\* builder's matrix has entries 0 or 1, a 1 exactly at the closed-form column
\* of each row, hence one 1 per row and per column, and phi, psi with k = 0
\* are the identity.
C6_ClosedForms ==
    (call.fn \in Builders /\ Returned /\ call.d \in TestedDims
        /\ call.nmax >= call.d * call.d) =>
        LET n == call.d * call.d
        IN  /\ pc = "done"
            /\ \A r \in 0..(n - 1), c \in 0..(n - 1) :
                  /\ ret[r + 1][c + 1] \in {0, 1}
                  /\ ret[r + 1][c + 1] = 1 <=>
                        c = ClosedForm(call.fn, call.k, call.d, r)
            /\ \A r \in 1..n : SeqSum(SubSeq(ret[r], 1, n)) = 1
            /\ \A c \in 1..n : SeqSum([r \in 1..n |-> ret[r][c]]) = 1
            /\ (call.fn \in {"phi", "psi"} /\ call.k = 0) =>
                  \A r \in 1..n, c \in 1..n : ret[r][c] = (IF r = c THEN 1 ELSE 0)

\* rowShiftBy(3) was built for d = 8 and moved row 0 to column 3
W_C6 ==
    /\ call.fn = "phi" /\ pc = "done" /\ call.d = 8 /\ call.k = 3
    /\ ret[1][4] = 1

\* C7: decrypt_array(encrypt_array(M), rows, cols) with nothing in between is
\* M entry by entry, for rows*cols not larger than the slot count.
C7_RoundTrip ==
    (call.fn = "round_trip" /\ Returned) =>
        (pc = "done" /\ ret = call.matrix)

\* a 2 x 2 matrix with a nonzero entry off its diagonal came back from a slot
\* vector that its 4 entries do not fill evenly
W_C7 ==
    /\ call.fn = "round_trip" /\ pc = "done"
    /\ Rows(call.matrix) = 2 /\ Cols(call.matrix) = 2
    /\ call.nmax % 4 # 0 /\ ret[2][1] # 0

\* C10 as stated: a builder called with d*d exceeding nmax/2 fails with a
\* capacity error and returns no matrix.
C10_BuildersFail ==
    (call.fn \in Builders /\ Returned /\ 2 * call.d * call.d > call.nmax) =>
        (pc = "failed" /\ err = "capacity")

\* C10 amended: called with d*d exceeding nmax/2 no builder fails; sigma and
\* tau return the duplicated matrix truncated to nmax x nmax, phi and psi
\* return the d*d x d*d matrix whatever nmax is.
C10_BuildersTruncate ==
    (call.fn \in Builders /\ Returned /\ 2 * call.d * call.d > call.nmax) =>
        /\ pc = "done" /\ err = "none"
        /\ LET dim == IF call.fn \in {"sigma", "tau"} THEN call.nmax
                      ELSE call.d * call.d
           IN  /\ Rows(ret) = dim
               /\ \A r \in 1..dim : Len(ret[r]) = dim

\* rowShift was built for d = 2 with 5 slots and came back 5 x 5
W_C10 ==
    /\ call.fn = "sigma" /\ pc = "done" /\ call.d = 2 /\ call.nmax = 5
    /\ Rows(ret) = 5

\* C1 as stated: for square U (N x N, N not larger than the slot count) and
\* a packed length-N vector m, the first N slots of lin_trans(U, encrypt(m))
\* decode to exactly U*m, with or without relinearization keys.
C1_LinTransProduct ==
    (call.fn = "lin_trans" /\ pc = "done" /\ Len(call.m) = Rows(call.U)) =>
        Flatten(dec) = MatVec(call.U, call.m)

\* C2 as stated: for d*d <= nmax/2, also when d*d does not divide nmax, the
\* first d*d slots of cA_dot_cB(encrypt(A), encrypt(B), d) are the row-major
\* flattening of A*B.
C2_DotProduct ==
    (call.fn = "cA_dot_cB" /\ pc = "done") =>
        dec = MatMul(call.A, call.B)

\* C8 as stated: the ciphertext returned by cA_dot_cB holds flatten(A*B)[i mod
\* d*d] in every slot i that encrypt_array fills for a d x d matrix.
C8_TilePadded ==
    (call.fn = "cA_dot_cB" /\ pc \in {"returned", "done"}) =>
        LET n == call.d * call.d
            AB == Flatten(MatMul(call.A, call.B))
        IN  \A i \in 0..(n * (call.nmax \div n) - 1) :
                ret.slots[i + 1] = AB[(i % n) + 1]

Offsets == (-1)..(MaxN + 1)

\* C11: diag_repr and lin_trans handed a matrix that is not square fail with
\* a shape error; lin_trans fails before any engine operation is executed
\* and returns no ciphertext.
C11_NotSquare ==
    (call.fn = "lin_trans" /\ Rows(call.U) # Cols(call.U)) =>
        /\ \A l \in Offsets :
              diag_repr(call.U, l) = [err |-> "shape", val |-> <<>>]
        /\ pc \notin {"start", "lt_enter"} =>
              /\ pc = "failed" /\ err = "shape"
              /\ log = <<>> /\ ret = <<>> /\ dec = <<>>
              /\ lt.acc = <<>> /\ lt.out = <<>>

\* lin_trans was handed a 1 x 2 matrix and refused it
W_C11 ==
    /\ call.fn = "lin_trans" /\ Rows(call.U) = 1 /\ Cols(call.U) = 2
    /\ pc = "failed" /\ err = "shape"

\* C12 as stated: lin_trans handed a square N x N matrix and the encryption
\* of a vector whose length is not N fails with a shape error and returns
\* no ciphertext.
C12_LengthMismatch ==
    (call.fn = "lin_trans" /\ Rows(call.U) = Cols(call.U)
        /\ Len(call.m) # Rows(call.U)
        /\ pc \notin {"start", "lt_enter", "lt_loop", "lt_post"}) =>
        (pc = "failed" /\ err = "shape" /\ ret = <<>>)

\* C13 as stated: for square U (N x N) and an offset l outside [0,N),
\* negative, equal to N or larger, diag_repr(U,l) fails with an index error
\* and returns no vector.
C13_OffsetOutOfRange ==
    (call.fn = "diag_repr" /\ Returned /\ call.l \notin 0..(Rows(call.U) - 1)) =>
        (pc = "failed" /\ err = "index" /\ ret = <<>>)

\* how many calls of an engine operation the log holds
OpCount(name) == Cardinality({i \in 1..Len(log) : log[i][1] = name})

\* what C14 says of d = 1 apart from the rotations: no per-k term, no
\* addition, one multiply, and slot 0 of the result is the product of the
\* two packed values
ScalarMultiply ==
    /\ mm.fn = "cA_dot_cB" => (mm.ct_Ak = <<>> /\ mm.ct_Bk = <<>>)
    /\ OpCount("add") = 0
    /\ pc \in {"returned", "done"} =>
          /\ OpCount("multiply") = 1
          /\ ret.slots[1] = call.A[1][1] * call.B[1][1]

\* C14 as stated: for d = 1, cA_dot_cB performs zero rotation operations and
\* no per-k term; the result is the single element-wise product, a scalar
\* multiply of the two packed values.
C14_NoRotation ==
    (call.fn = "cA_dot_cB" /\ call.d = 1) =>
        (OpCount("rotate") = 0 /\ ScalarMultiply)

\* C14 amended: for d = 1, cA_dot_cB performs no rotation by a nonzero number
\* of steps (rotate_vector is called twice, once in each first-stage
\* transform, each time with 0 steps) and no per-k term; the result is the
\* single element-wise product, a scalar multiply of the two packed values.
C14_ZeroStepRotations ==
    (call.fn = "cA_dot_cB" /\ call.d = 1) =>
        /\ \A i \in 1..Len(log) : log[i][1] = "rotate" => log[i][2] = 0
        /\ pc \in {"returned", "done"} => OpCount("rotate") = 2
        /\ ScalarMultiply

\* the product of two 1 x 1 matrices was returned and decrypted to 1
W_C14 ==
    /\ call.fn = "cA_dot_cB" /\ call.d = 1 /\ pc = "done"
    /\ dec = <<<<1>>>> /\ OpCount("rotate") = 2

\* the result of the last lin_trans that returned is its input one level down
\* (keys) or at the input's level (no keys), at the input's scale squared
PostProcessed ==
    LET squared == ScaleMul(lt.ct.scale, lt.ct.scale)
    IN  IF lt.relin
        THEN /\ lt.out.level = lt.ct.level - 1
             /\ lt.out.scale = ScaleDrop(squared, lt.ct.level)
             /\ lt.out.size = 2
        ELSE /\ lt.out.level = lt.ct.level
             /\ lt.out.scale = squared

\* C15: lin_trans post-processes the sum once: with relinearization keys it
\* relinearizes, then rescales the sum (never a term), so the result is one
\* level below the input with scale input^2 / dropped prime; without keys it
\* does neither, and the result has the input's level and scale input^2.
C15_PostProcessOnce ==
    /\ (lt.fn = "lin_trans"
          /\ pc \notin {"lt_enter", "lt_loop", "lt_post", "failed"}) => PostProcessed
    /\ (call.fn = "lin_trans" /\ pc \in {"returned", "done"}) =>
          /\ ret = lt.out
          /\ OpCount("relinearize") = (IF call.relin THEN 1 ELSE 0)
          /\ OpCount("rescale") = (IF call.relin THEN 1 ELSE 0)
          /\ call.relin =>
                /\ log[Len(log) - 2] = Op("add_many")
                /\ log[Len(log) - 1] = Op("relinearize")
                /\ log[Len(log)] = Op("rescale")

\* a sum of two terms was relinearized and rescaled once
W_C15 ==
    /\ call.fn = "lin_trans" /\ call.relin /\ pc = "returned"
    /\ Len(lt.acc) = 2 /\ ret.level = call.top - 1
    /\ OpCount("rescale") = 1

\* both first-stage transforms have returned and no per-k transform has begun
FirstStageDone ==
    /\ call.fn = "cA_dot_cB" /\ pc = "dot_k"
    /\ mm.k = 1 /\ mm.ct_Ak = <<>>

\* C16 as stated: A0 and B0 are computed with no relinearize and no rescale;
\* they are at the level of ctA and ctB, and no level is consumed before the
\* per-k transforms.
C16_FirstStageRaw ==
    FirstStageDone =>
        /\ mm.ct_A0.level = mm.ct_A.level
        /\ mm.ct_B0.level = mm.ct_B.level
        /\ OpCount("relinearize") = 0 /\ OpCount("rescale") = 0

\* C16 amended: A0 and B0 are computed with the relinearization keys: each is
\* relinearized and rescaled once, so A0 and B0 are one level below ctA and
\* ctB, and one level is consumed before the per-k transforms.
C16_FirstStageRescaled ==
    FirstStageDone =>
        /\ mm.ct_A0.level = mm.ct_A.level - 1
        /\ mm.ct_B0.level = mm.ct_B.level - 1
        /\ mm.ct_A0.scale = ScaleDrop(ScaleMul(mm.ct_A.scale, mm.ct_A.scale),
                                      mm.ct_A.level)
        /\ mm.ct_B0.scale = ScaleDrop(ScaleMul(mm.ct_B.scale, mm.ct_B.scale),
                                      mm.ct_B.level)
        /\ OpCount("relinearize") = 2 /\ OpCount("rescale") = 2

\* for d = 2 both first-stage transforms returned, one level down
W_C16 ==
    /\ FirstStageDone /\ call.d = 2
    /\ mm.ct_A.level = MaxLevel /\ mm.ct_A0.level = MaxLevel - 1
    /\ mm.ct_B0.level = mm.ct_B.level - 1

\* C17: when a step of lin_trans or cA_dot_cB fails (matrix not square,
\* capacity exceeded, level budget exhausted) the whole operation aborts: no
\* ciphertext is returned, nothing is decrypted, no partial sum is handed
\* out, and nothing runs after the failure (no retry, no fallback).
C17_FailureAborts ==
    /\ [](pc = "failed" => (ret = <<>> /\ dec = <<>>))
    /\ [][pc # "failed"]_vars

\* a rescale found the chain exhausted after a sum had been accumulated
W_C17 ==
    /\ pc = "failed" /\ err = "level"
    /\ lt.fn = "lin_trans" /\ lt.out # <<>>
    /\ ret = <<>>

\* C18: whenever add_many or add_inplace is reached, its operands have the
\* same level and the same scale, so no additive call fails on a mismatch;
\* and every diagonal plaintext is at the ciphertext's level and scale when
\* it is multiplied in.
C18_AdditiveOperandsMatch ==
    /\ err \notin {"add_mismatch", "plain_mismatch"}
    /\ lt.fn = "lin_trans" =>
          \A i \in 1..Len(lt.acc) :
              /\ lt.acc[i].level = lt.ct.level
              /\ lt.acc[i].scale = ScaleMul(lt.ct.scale, lt.ct.scale)
    /\ pc = "lt_post" => lt.out.level = lt.ct.level
    /\ pc = "dot_acc" => OpCount("add") = mm.idx

\* a per-k term was added to the accumulator of a product whose second
\* factor was encrypted at another scale than the first
W_C18 ==
    /\ call.fn = "cA_dot_cB" /\ pc = "dot_acc" /\ mm.idx = 1
    /\ OpCount("add") = 1 /\ OpCount("add_many") = 4
    /\ call.scaleB # BaseScale

\* the product elemMul makes of the k-th pair of transforms (k from 1)
Term(k) == cA_x_cB(mm.ct_Ak[k], mm.ct_Bk[k]).val

\* C19 as stated: in each accumulation step the accumulator is switched down
\* to the term's level and takes the term's scale; the returned ciphertext
\* carries the scale of the last added term.
C19_AccTakesTermScale ==
    (call.fn = "cA_dot_cB" /\ pc \in {"dot_acc", "returned", "done"}
        /\ mm.idx >= 1) =>
        /\ mm.ct_AB.level = Term(mm.idx).level
        /\ mm.ct_AB.scale = Term(mm.idx).scale
        /\ pc \in {"returned", "done"} => ret.scale = Term(Len(mm.ct_Ak)).scale

\* C19 amended: in each accumulation step the accumulator is switched down to
\* the term's level and the term's scale is set to the accumulator's, the
\* accumulator's scale being left as elemMul(A0, B0) produced it; the
\* returned ciphertext carries the scale of that first product.
C19_TermTakesAccScale ==
    (call.fn = "cA_dot_cB" /\ pc \in {"dot_acc", "returned", "done"}
        /\ mm.idx >= 1) =>
        /\ mm.ct_AB.level = Term(mm.idx).level
        /\ mm.ct_AB.scale = cA_x_cB(mm.ct_A0, mm.ct_B0).val.scale
        /\ pc \in {"returned", "done"} =>
              ret.scale = cA_x_cB(mm.ct_A0, mm.ct_B0).val.scale

\* a product for d = 2 was returned one level below its first product, at a
\* scale that is not the scale of the term added
W_C19 ==
    /\ call.fn = "cA_dot_cB" /\ pc = "returned" /\ call.d = 2 /\ mm.idx = 1
    /\ ret.level = cA_x_cB(mm.ct_A0, mm.ct_B0).val.level - 1
    /\ ret.scale # Term(1).scale

\* C20 as stated: whatever the levels and scales of ctA and ctB, the two
\* operands of every multiply of cA_dot_cB (A0 with B0, Ak with Bk) are at the
\* same level when the multiply executes.
C20_MultiplyOperandsAligned ==
    /\ err # "multiply_mismatch"
    /\ (pc = "dot_k" /\ mm.k >= mm.d) => mm.ct_A0.level = mm.ct_B0.level
    /\ (pc = "dot_acc" /\ mm.idx < Len(mm.ct_Ak)) =>
          mm.ct_Ak[mm.idx + 1].level = mm.ct_Bk[mm.idx + 1].level

\* C21: no operation raises a level: the diagonal plaintext (encoded at the
\* top of the chain) is switched to the input's level, which is not above it;
\* the accumulator is switched to the term's level, which is not above its
\* own; a failure for lack of levels happens at a rescale only; and every
\* ciphertext lin_trans, cA_x_cB or cA_dot_cB produces is at a level not
\* above that of any ciphertext it was computed from.
C21_LevelNeverRaised ==
    /\ err = "level" => (log # <<>> /\ log[Len(log)] = Op("relinearize"))
    /\ lt.fn = "lin_trans" =>
          /\ lt.parms_id <= call.top
          /\ \A i \in 1..Len(lt.acc) : lt.acc[i].level <= lt.ct.level
          /\ lt.out # <<>> => lt.out.level <= lt.ct.level
    /\ mm.fn = "cA_dot_cB" =>
          /\ mm.ct_A0 # <<>> => mm.ct_A0.level <= mm.ct_A.level
          /\ mm.ct_B0 # <<>> => mm.ct_B0.level <= mm.ct_B.level
          /\ \A i \in 1..Len(mm.ct_Ak) : mm.ct_Ak[i].level <= mm.ct_A0.level
          /\ \A i \in 1..Len(mm.ct_Bk) : mm.ct_Bk[i].level <= mm.ct_B0.level
          /\ mm.ct_AB # <<>> =>
                /\ mm.ct_AB.level <= mm.ct_A0.level
                /\ mm.ct_AB.level <= mm.ct_B0.level
                /\ \A i \in 1..mm.idx :
                      /\ mm.ct_AB.level <= mm.ct_Ak[i].level
                      /\ mm.ct_AB.level <= mm.ct_Bk[i].level
          /\ (pc = "dot_acc" /\ mm.idx < Len(mm.ct_Ak)
                /\ cA_x_cB(mm.ct_Ak[mm.idx + 1], mm.ct_Bk[mm.idx + 1]).err = "none") =>
                Term(mm.idx + 1).level <= mm.ct_AB.level
          /\ pc \in {"returned", "done"} =>
                (ret.level <= mm.ct_A.level /\ ret.level <= mm.ct_B.level)

\* the accumulator of a product for d = 2 was switched one level down, from
\* the level of the first product to the level of the k = 1 term
W_C21 ==
    /\ call.fn = "cA_dot_cB" /\ call.d = 2 /\ pc = "dot_acc" /\ mm.idx = 1
    /\ log[Len(log) - 2] = Op("mod_switch")
    /\ mm.ct_AB.level = mm.ct_A0.level - 2
    /\ cA_x_cB(mm.ct_A0, mm.ct_B0).val.level = mm.ct_A0.level - 1

\* the last n entries of the log
LogTail(n) == SubSeq(log, Len(log) - n + 1, Len(log))

\* C22: a call of cA_x_cB that returns has executed multiply, relinearize and
\* rescale, in this order and nothing else, and its result has size 2, is
\* one level below the operands, holds the slot-wise product, and has the
\* product of the operands' scales divided by the dropped prime as its scale.
C22_ElementwiseProduct ==
    /\ (pc = "dot_acc" /\ mm.idx = 0) =>
          /\ Len(log) >= 3
          /\ LogTail(3) = <<Op("multiply"), Op("relinearize"), Op("rescale")>>
          /\ mm.ct_A0.level = mm.ct_B0.level
          /\ mm.ct_AB = [slots |-> VecMul(mm.ct_A0.slots, mm.ct_B0.slots),
                         scale |-> ScaleDrop(ScaleMul(mm.ct_A0.scale, mm.ct_B0.scale),
                                             mm.ct_A0.level),
                         level |-> mm.ct_A0.level - 1,
                         size |-> 2]
    /\ (pc = "dot_acc" /\ mm.idx >= 1) =>
          /\ Len(log) >= 6
          /\ LogTail(6) = <<Op("multiply"), Op("relinearize"), Op("rescale"),
                            Op("mod_switch"), Op("set_scale"), Op("add")>>
          /\ mm.ct_AB.size = 2
          /\ mm.ct_AB.level = mm.ct_Ak[mm.idx].level - 1
          /\ mm.ct_AB.level = mm.ct_Bk[mm.idx].level - 1
    /\ pc \in {"dot_k", "dot_acc"} =>
          OpCount("multiply") = (IF pc = "dot_k" THEN 0 ELSE 1 + mm.idx)

\* the first product of a call with d = 2 was made of two transforms with a
\* common nonzero slot
W_C22 ==
    /\ call.fn = "cA_dot_cB" /\ call.d = 2 /\ pc = "dot_acc" /\ mm.idx = 0
    /\ mm.ct_AB.slots[1] # 0 /\ mm.ct_AB.level = call.top - 2

\* C23 as stated: for every square U and every input ciphertext, lin_trans
\* (which skips the zero diagonals) and the same computation with no diagonal
\* skipped agree exactly: where the full computation returns, lin_trans
\* returns a ciphertext with the same slots, level and scale, and where it
\* fails, lin_trans fails.
C23_SkipAgreesWithFull ==
    (call.fn = "lin_trans" /\ Rows(call.U) = Cols(call.U)
        /\ pc \in {"returned", "done", "failed"}) =>
        LET full == LinTransFull(call.U, lt.ct, call.relin, call.nmax, call.top)
        IN  IF full.err = "none"
            THEN /\ pc # "failed"
                 /\ ret.slots = full.val.slots
                 /\ ret.level = full.val.level
                 /\ ret.scale = full.val.scale
            ELSE pc = "failed" /\ err = full.err

\* the result of the sequential order of the code on the terms of the run
SequentialResult ==
    IF call.fn = "lin_trans"
    THEN lin_trans(call.U, mm.ct, call.relin, call.nmax, call.top)
    ELSE AccumulateFrom(mm.terms[1].val,
                        [i \in 1..(Len(mm.terms) - 1) |-> mm.terms[i + 1].val])

\* no addition of the reduction failed, and the result of a finished run has
\* the slots, the level and the scale of the sequential order of the code
ReductionAgrees ==
    /\ mm.failed_in # "reduce"
    /\ pc = "done" =>
          /\ SequentialResult.err = "none"
          /\ ret.slots = SequentialResult.val.slots
          /\ ret.level = SequentialResult.val.level
          /\ ret.scale = SequentialResult.val.scale

InputsAsHandedIn ==
    /\ (call.fn = "lin_trans" /\ lt.fn = "lin_trans") =>
          lt.ct = encrypt_array(Column(call.m), call.nmax, BaseScale, call.top)
    /\ mm.fn = "cA_dot_cB" =>
          /\ mm.ct_A = encrypt_array(call.A, call.nmax, BaseScale, call.top)
          /\ mm.ct_B = mod_switch_to(encrypt_array(call.B, call.nmax, call.scaleB,
                                                   call.top), call.levelB)
    /\ (mm.fn = "cA_dot_cB" /\ pc \in {"lt_enter", "lt_loop", "lt_post"}) =>
          lt.ct = (CASE lt.dest = "A0" -> mm.ct_A
                     [] lt.dest = "B0" -> mm.ct_B
                     [] lt.dest = "Ak" -> mm.ct_A0
                     [] lt.dest = "Bk" -> mm.ct_B0)

\* a step changes neither the input of a running lin_trans, nor ctA, ctB,
\* nor A0, B0 or a per-k transform once it has been returned
InputsKept ==
    /\ (lt.fn = "lin_trans" /\ pc \in {"lt_enter", "lt_loop", "lt_post"}) =>
          lt'.ct = lt.ct
    /\ mm.fn = "cA_dot_cB" =>
          /\ mm'.ct_A = mm.ct_A /\ mm'.ct_B = mm.ct_B
          /\ mm.ct_A0 # <<>> => mm'.ct_A0 = mm.ct_A0
          /\ mm.ct_B0 # <<>> => mm'.ct_B0 = mm.ct_B0
          /\ \A i \in 1..Len(mm.ct_Ak) : mm'.ct_Ak[i] = mm.ct_Ak[i]
          /\ \A i \in 1..Len(mm.ct_Bk) : mm'.ct_Bk[i] = mm.ct_Bk[i]

\* C25: lin_trans and cA_x_cB leave their input ciphertexts as they were
\* (level, scale, size, slots), cA_dot_cB leaves ctA and ctB as they were, and
\* A0 and B0 are the same at each of the d-1 transforms and at the k = 0
\* product that read them.
C25_InputsUnchanged ==
    /\ []InputsAsHandedIn
    /\ [][InputsKept]_vars

\* for d = 2 the product was returned with ctA as encrypted and A0 as the
\* first transform made it, after the k = 1 transform and the k = 0 product
\* had read A0
W_C25 ==
    /\ call.fn = "cA_dot_cB" /\ call.d = 2 /\ pc = "returned"
    /\ Len(mm.ct_Ak) = 1
    /\ mm.ct_A0 = lin_trans(mm.Usigma, mm.ct_A, TRUE, call.nmax, call.top).val
    /\ \E i \in 1..Len(mm.ct_A0.slots) : mm.ct_A0.slots[i] # 0

\* ctA and ctB are at the same level, d*d fits half the slots, and the chain
\* has the levels the product consumes
SufficientBudget ==
    /\ call.fn = "cA_dot_cB"
    /\ 2 * call.d * call.d <= call.nmax
    /\ call.levelB = call.top
    /\ call.top >= (IF call.d = 1 THEN 2 ELSE 3)

\* no k is skipped, and a returned product has taken 2*d linear transforms
\* (one add_many each), d element-wise products and d-1 additions
DotCounts ==
    call.fn = "cA_dot_cB" =>
        /\ pc = "dot_k" =>
              \A k \in 1..(call.d - 1) :
                  /\ MatSum(phi_permutation_k(k, call.d, call.nmax)) = call.d * call.d
                  /\ MatSum(psi_permutation_k(k, call.d, call.nmax)) = call.d * call.d
        /\ pc \in {"dot_acc", "returned", "done"} =>
              (Len(mm.ct_Ak) = call.d - 1 /\ Len(mm.ct_Bk) = call.d - 1)
        /\ pc \in {"returned", "done"} =>
              /\ OpCount("add_many") = 2 * call.d
              /\ OpCount("multiply") = call.d
              /\ OpCount("add") = call.d - 1
        /\ SufficientBudget => pc # "failed"

\* how far a call of cA_dot_cB has come: the stages of lines 132-158 in
\* order, each as wide as the longest lin_trans (N + 3 steps, N <= nmax),
\* and within a lin_trans the steps it has taken
LtPosition ==
    CASE pc = "lt_enter" -> 0
      [] pc = "lt_loop" -> 1 + lt.l
      [] pc = "lt_post" -> 2 + Rows(lt.U)
      [] OTHER -> 0
Stage ==
    CASE pc = "start" -> 0
      [] pc = "dot_check" -> 1
      [] pc = "dot_perms" -> 2
      [] pc = "dot_A0" -> 3
      [] pc = "dot_B0" -> 5
      [] pc = "dot_k" -> 7 + 4 * (mm.k - 1)
      [] pc = "dot_Bk" -> 9 + 4 * (mm.k - 1)
      [] pc \in {"lt_enter", "lt_loop", "lt_post"} ->
            (CASE lt.dest = "A0" -> 4
               [] lt.dest = "B0" -> 6
               [] lt.dest = "Ak" -> 8 + 4 * (mm.k - 1)
               [] lt.dest = "Bk" -> 10 + 4 * (mm.k - 1))
      [] pc = "dot_acc" -> 8 + 4 * (call.d - 1) + mm.idx
      [] pc = "returned" -> 8 + 5 * call.d
      [] pc \in {"done", "failed"} -> 9 + 5 * call.d
Position == Stage * (call.nmax + 3) + LtPosition

\* the positions of the code from which a step is taken, whatever the state
Running ==
    {"start", "lt_enter", "lt_loop", "lt_post", "dot_check", "dot_perms",
     "dot_A0", "dot_B0", "dot_k", "dot_Bk", "dot_acc", "returned"}

\* a step takes a call further towards its end, which is at most
\* (9 + 5*d) * (nmax + 3) away, and leaves it at its end or where the next
\* step is taken
DotAdvances ==
    call.fn = "cA_dot_cB" =>
        /\ Position' > Position
        /\ Position' <= (9 + 5 * call.d) * (call.nmax + 3)
        /\ pc' \in Running \cup {"done", "failed"}

\* C26: for every k in [1,d) rowShiftBy(k,d) and colShiftBy(k,d) hold d*d
\* nonzero entries, so no k is skipped; on sufficient level budget cA_dot_cB
\* always terminates (every step advances a bounded position), after
\* exactly 2*d linear transforms, d element-wise products and d-1
\* additions.
C26_DotTerminates ==
    /\ []DotCounts
    /\ [][DotAdvances]_vars

\* a product for d = 3 ended after 6 linear transforms, 3 element-wise
\* products and 2 additions
W_C26 ==
    /\ call.fn = "cA_dot_cB" /\ call.d = 3 /\ pc = "done"
    /\ OpCount("add_many") = 6 /\ OpCount("multiply") = 3 /\ OpCount("add") = 2

\* the levels cA_dot_cB consumes: one in the first transforms, one in the
\* per-k transforms (none for d = 1), one in the element-wise products
Depth == IF call.d = 1 THEN 2 ELSE 3

\* C27: for ctA and ctB both at level L (and d*d within half the slots, as
\* cA_dot_cB requires), the returned ciphertext is at level L-3 when d >= 2
\* and at L-2 when d = 1; when L is smaller than that, the call fails at a
\* rescale and returns no ciphertext.
C27_LevelDepth ==
    (call.fn = "cA_dot_cB" /\ 2 * call.d * call.d <= call.nmax
        /\ call.levelB = call.top) =>
        /\ mm.fn = "cA_dot_cB" => (mm.ct_A.level = call.top /\ mm.ct_B.level = call.top)
        /\ pc \in {"returned", "done"} =>
              (call.top >= Depth /\ ret.level = call.top - Depth)
        /\ call.top >= Depth => pc # "failed"
        /\ call.top < Depth =>
              /\ pc \notin {"returned", "done"}
              /\ ret = <<>>
              /\ pc = "failed" =>
                    /\ err = "level"
                    /\ log[Len(log)] = Op("relinearize")
                    /\ OpCount("rescale") < 2 * call.d + call.d

\* with two levels and d = 2 the transforms and the first product were
\* rescaled, and the rescale of the k = 1 product found the chain exhausted
W_C27 ==
    /\ call.fn = "cA_dot_cB" /\ call.d = 2 /\ call.top = 2 /\ call.levelB = 2
    /\ pc = "failed" /\ err = "level"
    /\ OpCount("rescale") = 5 /\ OpCount("multiply") = 2
    /\ ret = <<>>

\* C28 as stated: lin_trans applied to the all-zero N x N matrix, every
\* diagonal being skipped, succeeds and returns a ciphertext whose first N
\* slots are zero; the accumulation never fails because the list of
\* surviving terms is empty.
C28_ZeroMatrixSucceeds ==
    (call.fn = "lin_trans" /\ call.U = Zeros(Rows(call.U), Rows(call.U))) =>
        /\ err # "empty"
        /\ (pc \in {"returned", "done", "failed"} /\ ~(call.relin /\ call.top = 0)) =>
              /\ pc # "failed"
              /\ \A i \in 1..Rows(call.U) : ret.slots[i] = 0

\* C29 as stated: for rows*cols not larger than nmax, encrypt_array fills all
\* nmax slots with the tiled flattening, slot i holding flatten(M)[i mod
\* rows*cols] for every i in [0,nmax), so a rotation by any l over the nmax
\* slots puts flatten(M)[(i+l) mod rows*cols] at every slot i < rows*cols.
C29_TilesFillAllSlots ==
    (call.fn = "round_trip" /\ pc = "packed") =>
        LET n == Rows(call.matrix) * Cols(call.matrix)
            flat == Flatten(call.matrix)
        IN  /\ Len(ret.slots) = call.nmax
            /\ \A i \in 0..(call.nmax - 1) : ret.slots[i + 1] = flat[(i % n) + 1]
            /\ \A l \in 0..(call.nmax - 1), i \in 0..(n - 1) :
                  rotate_vector(ret, l).slots[i + 1] = flat[((i + l) % n) + 1]

\* C30 as stated: each of the four builders returns the closed-form d*d x
\* d*d matrix P duplicated as diag(P, P) and truncated to nmax x nmax, a
\* square matrix of dimension min(2*d*d, nmax), for every d, k and nmax.
C30_BuildersDuplicated ==
    (call.fn \in Builders /\ Returned) =>
        LET n == call.d * call.d
            dim == Min(2 * n, call.nmax)
        IN  /\ pc = "done"
            /\ Rows(ret) = dim
            /\ \A r \in 0..(dim - 1) :
                  /\ Len(ret[r + 1]) = dim
                  /\ \A c \in 0..(dim - 1) :
                        ret[r + 1][c + 1] =
                            (IF r \div n = c \div n
                                /\ c % n = ClosedForm(call.fn, call.k, call.d, r % n)
                             THEN 1 ELSE 0)

====
